---- MODULE Spec2Model ----
(***************************************************************************)
(* Model of src/daos/UserDao.ts: the singleton UserDao and its nine        *)
(* query/mutation methods over the "users" collection.                     *)
(*                                                                         *)
(* The collection is a sequence of documents in insertion (natural) order. *)
(* A document is a function from field names to values; a User passed to   *)
(* createUser/updateUser is a function over a subset of Fields.  Every     *)
(* method is one database call, so every method is one atomic action.      *)
(***************************************************************************)
EXTENDS Integers, Sequences, FiniteSets, TLC

\* Number of documents ever constructed (ObjectIds ever generated).
MaxIds == 3

\* The value of the static reference before the first getInstance call.
NullRef == 0

Usernames == {"alice", "bob"}
Passwords == {"p1", "p2"}
Salaries  == {1000, 2000}

Fields == {"username", "password", "salary"}

\* Well-formed primary keys a caller may pass, generated yet or not.
Ids == 1..MaxIds

Restrict(r, S) == [f \in S |-> r[f]]

\* Every User object a caller may pass: any subset of the fields, each with
\* a value of its type.
Users ==
    { Restrict([username |-> u, password |-> p, salary |-> s], S) :
        u \in Usernames, p \in Passwords, s \in Salaries, S \in SUBSET Fields }

VARIABLES
    userDao,      \* UserDao.userDao, the static reference (NullRef or an instance)
    constructed,  \* how many times the private constructor has run
    returned,     \* history: the instances getInstance has returned
    users,        \* the users collection
    nextId,       \* the next ObjectId to be generated
    last,         \* history: the last call, its arguments and its outcome
    pristine,     \* history: <<id, user>> of created records no call has targeted since
    deleted,      \* history: ids passed to deleteUser since the last createUser
    emptied       \* history: deleteAllUsers resolved and no createUser since

vars == <<userDao, constructed, returned, users, nextId, last, pristine, deleted, emptied>>

(***************************************************************************)
(* Outcomes of a call: the promise resolves with a value or rejects.       *)
(***************************************************************************)
ResolveDoc(d)   == [status |-> "resolved", kind |-> "doc",  doc  |-> d]
ResolveNull     == [status |-> "resolved", kind |-> "null"]
ResolveDocs(ds) == [status |-> "resolved", kind |-> "docs", docs |-> ds]
ResolveAck(k)   == [status |-> "resolved", kind |-> "ack",  n    |-> k]
Reject(e)       == [status |-> "rejected", kind |-> "error", error |-> e]

(***************************************************************************)
(* The document store behind UserModel.                                    *)
(***************************************************************************)
\* A filter object matches a document that has every field of the filter
\* with an equal value; the empty filter matches every document.
Matches(doc, filter) ==
    \A f \in DOMAIN filter : f \in DOMAIN doc /\ doc[f] = filter[f]

MatchingIndexes(coll, filter) ==
    { i \in 1..Len(coll) : Matches(coll[i], filter) }

\* The first matching document in natural order (0 when none matches).
FirstMatch(coll, filter) ==
    LET I == MatchingIndexes(coll, filter)
    IN  IF I = {} THEN 0 ELSE CHOOSE i \in I : \A j \in I : i <= j

RECURSIVE Without(_, _)
\* The collection without the documents at the indexes in I, order kept.
Without(coll, I) ==
    IF coll = << >> THEN << >>
    ELSE LET n == Len(coll)
             front == Without(SubSeq(coll, 1, n - 1), I)
         IN  IF n \in I THEN front ELSE Append(front, coll[n])

\* {$set: set} applied to a document: the named fields take the given
\* values, every other field keeps its value.
ApplySet(doc, set) ==
    [f \in DOMAIN doc \cup DOMAIN set |->
        IF f \in DOMAIN set THEN set[f] ELSE doc[f]]

\* The schema's required fields: a record is valid when it has them all.
ValidUser(user) == DOMAIN user = Fields

\* Mutant: the username index is not unique.
UniqueUsernames_NotEnforced(coll) == TRUE

\* The unique index on username.
UniqueUsernames(coll) ==
    \A i, j \in 1..Len(coll) :
        (i # j /\ "username" \in DOMAIN coll[i] /\ "username" \in DOMAIN coll[j])
            => coll[i].username # coll[j].username

\* The document built from a user object and a generated id.
NewDoc(user, id) ==
    [f \in DOMAIN user \cup {"_id"} |-> IF f = "_id" THEN id ELSE user[f]]

ModelFind(coll) == ResolveDocs(coll)

ModelFindOne(coll, filter) ==
    LET i == FirstMatch(coll, filter)
    IN  IF i = 0 THEN ResolveNull ELSE ResolveDoc(coll[i])

ModelCreate(coll, user, id) ==
    IF ~ValidUser(user)
    THEN [coll |-> coll, result |-> Reject("ValidationError")]
    ELSE LET doc == NewDoc(user, id)
             new == Append(coll, doc)
         IN  IF UniqueUsernames(new)
             THEN [coll |-> new,  result |-> ResolveDoc(doc)]
             ELSE [coll |-> coll, result |-> Reject("E11000")]

ModelUpdateOne(coll, filter, set) ==
    LET i == FirstMatch(coll, filter)
    IN  IF i = 0
        THEN [coll |-> coll, result |-> ResolveAck(0)]
        ELSE LET new == [coll EXCEPT ![i] = ApplySet(coll[i], set)]
             IN  IF UniqueUsernames(new)
                 THEN [coll |-> new,  result |-> ResolveAck(1)]
                 ELSE [coll |-> coll, result |-> Reject("E11000")]

ModelDeleteOne(coll, filter) ==
    LET i == FirstMatch(coll, filter)
    IN  IF i = 0
        THEN [coll |-> coll, result |-> ResolveAck(0)]
        ELSE [coll |-> Without(coll, {i}), result |-> ResolveAck(1)]

ModelDeleteMany(coll, filter) ==
    LET I == MatchingIndexes(coll, filter)
    IN  [coll |-> Without(coll, I), result |-> ResolveAck(Cardinality(I))]

NoFilter == [f \in {} |-> f]
ById(uid) == [_id |-> uid]
ByUsername(username) == [username |-> username]
ByCredentials(username, password) == [username |-> username, password |-> password]

(***************************************************************************)
(* The methods of UserDao, as functions of the state they read.            *)
(***************************************************************************)
\* Mutant: the null test is missing and every call constructs.
getInstance_AlwaysNew(ref, count) ==
    [userDao |-> count + 1, constructed |-> count + 1, value |-> count + 1]

getInstance(ref, count) ==
    IF ref = NullRef
    THEN [userDao |-> count + 1, constructed |-> count + 1, value |-> count + 1]
    ELSE [userDao |-> ref,       constructed |-> count,     value |-> ref]

findAllUsers(coll) == ModelFind(coll)

\* Mutant: findOne without the id filter.
findUserById_AnyRecord(coll, uid) == ModelFindOne(coll, NoFilter)

findUserById(coll, uid) == ModelFindOne(coll, ById(uid))

createUser(coll, user, id) == ModelCreate(coll, user, id)

\* Mutant: the record is replaced by the user object instead of {$set: user}.
updateUser_Replace(coll, uid, user) ==
    LET i == FirstMatch(coll, ById(uid))
    IN  IF i = 0
        THEN [coll |-> coll, result |-> ResolveAck(0)]
        ELSE [coll |-> [coll EXCEPT ![i] = NewDoc(user, uid)],
              result |-> ResolveAck(1)]

\* Mutant: the update is an upsert, inserting on a miss.
updateUser_Upsert(coll, uid, user) ==
    IF FirstMatch(coll, ById(uid)) = 0
    THEN [coll |-> Append(coll, NewDoc(user, uid)), result |-> ResolveAck(0)]
    ELSE ModelUpdateOne(coll, ById(uid), user)

updateUser(coll, uid, user) == ModelUpdateOne(coll, ById(uid), user)

\* Mutant: the username filter is missing.
updateUserSalaryByUsername_NoFilter(coll, username, salary) ==
    ModelUpdateOne(coll, NoFilter, [salary |-> salary])

updateUserSalaryByUsername(coll, username, salary) ==
    ModelUpdateOne(coll, ByUsername(username), [salary |-> salary])

\* Mutant: the filter names a field no document has.
deleteUser_WrongField(coll, uid) == ModelDeleteOne(coll, [id |-> uid])

\* Mutant: deleteOne without the id filter.
deleteUser_AnyRecord(coll, uid) == ModelDeleteOne(coll, NoFilter)

deleteUser(coll, uid) == ModelDeleteOne(coll, ById(uid))

\* Mutant: deleteOne instead of deleteMany.
deleteAllUsers_DeleteOne(coll) == ModelDeleteOne(coll, NoFilter)

deleteAllUsers(coll) == ModelDeleteMany(coll, NoFilter)

\* Mutant: the password is left out of the filter.
findUserByCredentials_UsernameOnly(coll, username, password) ==
    ModelFindOne(coll, ByUsername(username))

findUserByCredentials(coll, username, password) ==
    ModelFindOne(coll, ByCredentials(username, password))

findUserByUsername(coll, username) == ModelFindOne(coll, ByUsername(username))

(***************************************************************************)
(* The state machine: one action per call.                                 *)
(***************************************************************************)
Init ==
    /\ userDao = NullRef
    /\ constructed = 0
    /\ returned = {}
    /\ users = << >>
    /\ nextId = 1
    /\ last = [op |-> "none"]
    /\ pristine = {}
    /\ deleted = {}
    /\ emptied = FALSE

Resolved(result) == result.status = "resolved"

\* Calls are issued one at a time: every method is a single atomic database
\* call, so concurrent calls behave as some sequence of them.  No call is
\* outstanding when the caller has taken the outcome of the last one.
Idle == last.op = "none"

\* The caller takes the outcome of the settled call.
Await ==
    /\ ~Idle
    /\ last' = [op |-> "none"]
    /\ UNCHANGED <<userDao, constructed, returned, users, nextId,
                   pristine, deleted, emptied>>

GetInstance ==
    LET r == getInstance(userDao, constructed)
    IN  /\ Idle
        /\ userDao' = r.userDao
        /\ constructed' = r.constructed
        /\ returned' = returned \cup {r.value}
        /\ last' = [op |-> "getInstance", value |-> r.value]
        /\ UNCHANGED <<users, nextId, pristine, deleted, emptied>>

\* The constructor is private: a caller holds an instance only through
\* getInstance.
HasInstance == Idle /\ userDao # NullRef

\* A read: the collection is left alone, the outcome is recorded.
Query(op, args, result) ==
    /\ HasInstance
    /\ last' = [op |-> op, args |-> args, result |-> result]
    /\ UNCHANGED <<userDao, constructed, returned, users, nextId,
                   pristine, deleted, emptied>>

FindAllUsers ==
    Query("findAllUsers", NoFilter, findAllUsers(users))

FindUserById(uid) ==
    Query("findUserById", [uid |-> uid], findUserById(users, uid))

FindUserByCredentials(username, password) ==
    Query("findUserByCredentials", [username |-> username, password |-> password],
          findUserByCredentials(users, username, password))

FindUserByUsername(username) ==
    Query("findUserByUsername", [username |-> username],
          findUserByUsername(users, username))

CreateUser(user) ==
    /\ HasInstance
    /\ nextId <= MaxIds
    /\ LET r == createUser(users, user, nextId)
       IN  /\ users' = r.coll
           /\ last' = [op |-> "createUser", args |-> [user |-> user],
                       result |-> r.result]
           /\ pristine' = IF Resolved(r.result)
                          THEN pristine \cup {<<r.result.doc._id, user>>}
                          ELSE pristine
    /\ nextId' = nextId + 1
    /\ deleted' = {}
    /\ emptied' = FALSE
    /\ UNCHANGED <<userDao, constructed, returned>>

UpdateUser(uid, user) ==
    /\ HasInstance
    /\ LET r == updateUser(users, uid, user)
       IN  /\ users' = r.coll
           /\ last' = [op |-> "updateUser", args |-> [uid |-> uid, user |-> user],
                       result |-> r.result]
    /\ pristine' = {p \in pristine : p[1] # uid}
    /\ UNCHANGED <<userDao, constructed, returned, nextId, deleted, emptied>>

UpdateUserSalaryByUsername(username, salary) ==
    /\ HasInstance
    /\ LET r == updateUserSalaryByUsername(users, username, salary)
       IN  /\ users' = r.coll
           /\ last' = [op |-> "updateUserSalaryByUsername",
                       args |-> [username |-> username, salary |-> salary],
                       result |-> r.result]
    /\ pristine' = {p \in pristine : p[2].username # username}
    /\ UNCHANGED <<userDao, constructed, returned, nextId, deleted, emptied>>

DeleteUser(uid) ==
    /\ HasInstance
    /\ LET r == deleteUser(users, uid)
       IN  /\ users' = r.coll
           /\ last' = [op |-> "deleteUser", args |-> [uid |-> uid],
                       result |-> r.result]
           /\ deleted' = IF Resolved(r.result) THEN deleted \cup {uid} ELSE deleted
    /\ pristine' = {p \in pristine : p[1] # uid}
    /\ UNCHANGED <<userDao, constructed, returned, nextId, emptied>>

DeleteAllUsers ==
    /\ HasInstance
    /\ LET r == deleteAllUsers(users)
       IN  /\ users' = r.coll
           /\ last' = [op |-> "deleteAllUsers", args |-> NoFilter,
                       result |-> r.result]
           /\ emptied' = (emptied \/ Resolved(r.result))
    /\ pristine' = {}
    /\ UNCHANGED <<userDao, constructed, returned, nextId, deleted>>

Next ==
    \/ GetInstance
    \/ FindAllUsers
    \/ \E uid \in Ids : FindUserById(uid)
    \/ \E user \in Users : CreateUser(user)
    \/ \E uid \in Ids, user \in Users : UpdateUser(uid, user)
    \/ \E username \in Usernames, salary \in Salaries :
           UpdateUserSalaryByUsername(username, salary)
    \/ \E uid \in Ids : DeleteUser(uid)
    \/ DeleteAllUsers
    \/ \E username \in Usernames, password \in Passwords :
           FindUserByCredentials(username, password)
    \/ \E username \in Usernames : FindUserByUsername(username)
    \/ Await

Spec == Init /\ [][Next]_vars

(***************************************************************************)
(* Properties.                                                             *)
(***************************************************************************)
IsDoc(result)  == Resolved(result) /\ result.kind = "doc"
IsNull(result) == Resolved(result) /\ result.kind = "null"
IsAck(result, k) == Resolved(result) /\ result.kind = "ack" /\ result.n = k

\* The positions of the stored records with primary key uid.
WithId(coll, uid) == { i \in 1..Len(coll) : coll[i]._id = uid }

\* The positions of the stored records with the given username.
WithUsername(coll, username) ==
    { i \in 1..Len(coll) : coll[i].username = username }

\* C1: a findUserById with the id of a record that createUser inserted, and
\* that no call has targeted since, resolves with a record carrying that id
\* and equal to the inserted user on username, password and salary.
C1_CreateThenFindById ==
    last.op = "findUserById" =>
        \A p \in pristine :
            p[1] = last.args.uid =>
                /\ IsDoc(last.result)
                /\ last.result.doc._id = p[1]
                /\ \A f \in Fields : last.result.doc[f] = p[2][f]

\* C1 witness: the created record is looked up while another record is stored.
C1_Witness ==
    /\ last.op = "findUserById"
    /\ \E p \in pristine : p[1] = last.args.uid
    /\ Len(users) >= 2
    /\ users[1]._id # last.args.uid

\* C2: an updateUser call on an existing record leaves every field the
\* partial set does not name, and every other record, as it was; when the
\* call resolves, every named field holds the given value.
C2_UpdateUserFrame ==
    [][ (last'.op = "updateUser" /\ WithId(users, last'.args.uid) # {}) =>
          LET set == last'.args.user
          IN  /\ Len(users') = Len(users)
              /\ \A i \in 1..Len(users) :
                    IF users[i]._id = last'.args.uid
                    THEN /\ DOMAIN users'[i] = DOMAIN users[i]
                         /\ \A f \in DOMAIN users[i] \ DOMAIN set :
                                users'[i][f] = users[i][f]
                         /\ Resolved(last'.result) =>
                                \A f \in DOMAIN set : users'[i][f] = set[f]
                    ELSE users'[i] = users[i] ]_vars

\* C2 witness: a resolved update of the password alone of the second of two
\* records, whose salary and username differ from the other record's.
C2_Witness ==
    /\ last.op = "updateUser"
    /\ IsAck(last.result, 1)
    /\ DOMAIN last.args.user = {"password"}
    /\ Len(users) = 2
    /\ users[2]._id = last.args.uid
    /\ users[2].password = last.args.user.password
    /\ users[1].password # users[2].password
    /\ users[1].salary # users[2].salary

\* C3: no two records of the users collection have the same username.
C3_UsernamesUnique ==
    \A i, j \in 1..Len(users) :
        i # j => users[i].username # users[j].username

\* C3 witness: with two records stored, a call that would have given both the
\* same username was rejected.
C3_Witness ==
    /\ Len(users) = 2
    /\ last.op \in {"createUser", "updateUser"}
    /\ ~Resolved(last.result)
    /\ last.result.error = "E11000"

\* C4: findUserByCredentials resolves with a stored record having both the
\* given username and the given password when there is one, and with null
\* when no stored record matches on both.
C4_CredentialsMatchBoth ==
    last.op = "findUserByCredentials" =>
        LET M == { i \in 1..Len(users) :
                     /\ users[i].username = last.args.username
                     /\ users[i].password = last.args.password }
        IN  IF M = {}
            THEN IsNull(last.result)
            ELSE /\ IsDoc(last.result)
                 /\ \E i \in M : last.result.doc = users[i]

\* C4 witness: null is returned although one record has the username (with
\* another password) and another record has the password (with another
\* username).
C4_Witness ==
    /\ last.op = "findUserByCredentials"
    /\ IsNull(last.result)
    /\ \E i \in 1..Len(users) :
          /\ users[i].username = last.args.username
          /\ users[i].password # last.args.password
    /\ \E i \in 1..Len(users) :
          /\ users[i].username # last.args.username
          /\ users[i].password = last.args.password

\* C5: a findUserById with an id that deleteUser was called with, no
\* createUser having been called since, resolves with null.
C5_DeleteThenFindById ==
    (last.op = "findUserById" /\ last.args.uid \in deleted) =>
        IsNull(last.result)

\* C5 witness: the deleted id is looked up while the collection still holds
\* another record.
C5_Witness ==
    /\ last.op = "findUserById"
    /\ last.args.uid \in deleted
    /\ last.args.uid < nextId
    /\ users # << >>

\* C6: when updateUserSalaryByUsername resolves against a collection holding
\* a record with that username, findUserByUsername then returns that record
\* with the new salary and every other field (id, username, password) as it
\* was.
C6_SalaryUpdateVisible ==
    [][ ( /\ last'.op = "updateUserSalaryByUsername"
          /\ Resolved(last'.result)
          /\ WithUsername(users, last'.args.username) # {} ) =>
          LET i == CHOOSE k \in WithUsername(users, last'.args.username) : TRUE
              found == findUserByUsername(users', last'.args.username)
          IN  /\ IsDoc(found)
              /\ found.doc = [users[i] EXCEPT !.salary = last'.args.salary] ]_vars

\* C6 witness: the salary of the second of two records was set, the first
\* record holding another salary.
C6_Witness ==
    /\ last.op = "updateUserSalaryByUsername"
    /\ IsAck(last.result, 1)
    /\ Len(users) = 2
    /\ users[2].username = last.args.username
    /\ users[2].salary = last.args.salary
    /\ users[1].salary # last.args.salary

\* The filter of the call recorded in l matches no record of coll.
MatchesNothing(coll, l) ==
    \/ l.op \in {"updateUser", "deleteUser"} /\ WithId(coll, l.args.uid) = {}
    \/ /\ l.op = "updateUserSalaryByUsername"
       /\ WithUsername(coll, l.args.username) = {}

\* C7: an updateUser, updateUserSalaryByUsername or deleteUser call whose
\* filter matches no record resolves with an acknowledgment of zero records
\* and leaves the collection exactly as it was.
C7_MissIsNoOp ==
    [][ MatchesNothing(users, last') =>
          /\ IsAck(last'.result, 0)
          /\ users' = users ]_vars

\* C7 witness: an update with an unknown id, naming every field, was issued
\* against a non-empty collection.
C7_Witness ==
    /\ last.op = "updateUser"
    /\ IsAck(last.result, 0)
    /\ DOMAIN last.args.user = Fields
    /\ users # << >>

\* C8: a findAllUsers after deleteAllUsers resolved, no createUser having
\* been called since, resolves with the empty collection.
C8_DeleteAllThenFindAll ==
    (last.op = "findAllUsers" /\ emptied) =>
        /\ Resolved(last.result)
        /\ last.result.kind = "docs"
        /\ last.result.docs = << >>

\* C8 witness: findAllUsers after a deleteAllUsers that followed two creations.
C8_Witness ==
    /\ last.op = "findAllUsers"
    /\ emptied
    /\ nextId > 2

\* C9: the constructor runs at most once, every getInstance call has returned
\* the same instance, and the static reference, once set, still holds it.
C9_Singleton ==
    /\ constructed <= 1
    /\ Cardinality(returned) <= 1
    /\ returned # {} => (userDao # NullRef /\ userDao \in returned)
    /\ last.op = "getInstance" => last.value = userDao

\* C9 witness: getInstance was called again after the instance had been used.
C9_Witness ==
    /\ last.op = "getInstance"
    /\ users # << >>
    /\ constructed = 1

\* C10: deleteUser removes the record whose id is the argument and no other:
\* the records with another id stay, unchanged and in order, and the size
\* drops by 1 when the id was stored and by 0 when it was not.
C10_DeleteUserFrame ==
    [][ last'.op = "deleteUser" =>
          LET uid == last'.args.uid
          IN  /\ users' = SelectSeq(users, LAMBDA d : d._id # uid)
              /\ Len(users) - Len(users') =
                    (IF WithId(users, uid) # {} THEN 1 ELSE 0) ]_vars

\* C10 witness: the first of two records was deleted and the other is left.
C10_Witness ==
    /\ last.op = "deleteUser"
    /\ IsAck(last.result, 1)
    /\ Len(users) = 1
    /\ users[1]._id > last.args.uid

====
